---- MODULE Spec2Model ----
(***************************************************************************)
(* Poseidon Fiat-Shamir transcript of halo2_proofs                         *)
(* (halo2_proofs/src/transcript/poseidon.rs): the point representation     *)
(* strategies, the big-integer bridge, and the PoseidonWrite /             *)
(* PoseidonRead transcripts over a sponge with an absorbing line.          *)
(*                                                                         *)
(* Field elements are their canonical integers, byte strings are           *)
(* sequences of 0..255, curves are small curves y^2 = x^3 + b of prime     *)
(* order (the shape of bn256), so that every conversion is computed and    *)
(* every input can be enumerated.                                          *)
(***************************************************************************)
EXTENDS Integers, Sequences, FiniteSets, TLC

VARIABLES
    C,          \* the curve type parameter: [p, n, b]
    Z,          \* the point representation type parameter
    w_state,    \* PoseidonWrite.state
    w_writer,   \* PoseidonWrite.writer (a Vec<u8>)
    w_status,   \* "active" | "finalized" | "aborted"
    w_log,      \* calls made on the writer, with their results
    proof,      \* the value returned by finalize
    r_state,    \* PoseidonRead.state
    r_reader,   \* PoseidonRead.reader (the unread rest of a &[u8])
    r_status,   \* "uninit" | "active" | "aborted"
    r_log,      \* calls made on the reader, with their results
    r_src,      \* "none" | "proof" | "bytes": what the reader was built on
    r_input,    \* the buffer the reader was built on
    fn_call,    \* the last call of a helper function: its name and inputs
    fn_out      \* and what it returned

vars == <<C, Z, w_state, w_writer, w_status, w_log, proof,
          r_state, r_reader, r_status, r_log, r_src, r_input,
          fn_call, fn_out>>

trVars == <<w_state, w_writer, w_status, w_log, proof,
            r_state, r_reader, r_status, r_log, r_src, r_input>>

wVars == <<w_state, w_writer, w_status, w_log, proof>>

rVars == <<r_state, r_reader, r_status, r_log, r_src, r_input>>

----------------------------------------------------------------------------
(* Bounds *)

\* canonical byte width of a field element and of a compressed point
\* (32 in the source, scaled down with the fields)
REPR_BYTES == 2

\* number of calls made on a Write transcript before finalize
MaxWriteOps == 2

\* number of calls made on a Read transcript
MaxReadOps == 2

\* largest unsigned integer handed to big_to_fe directly
MaxBig == 40

\* largest NUMBER_OF_LIMBS and BITLEN of a LimbRepresentation
MaxLimbs == 4

MaxBitLen == 5

----------------------------------------------------------------------------
(* Program constants *)

\* PoseidonWrite::<.., 3, 2>: the sponge's rate
RATE == 2

R_F == 8

R_P == 57

----------------------------------------------------------------------------
(* Arithmetic helpers *)

RECURSIVE Pow(_, _)
Pow(a, k) == IF k = 0 THEN 1 ELSE a * Pow(a, k - 1)

RECURSIVE BitLength(_)
BitLength(v) == IF v = 0 THEN 0 ELSE 1 + BitLength(v \div 2)

\* BigUint::to_bytes_le: minimal little-endian bytes, [0] for zero
RECURSIVE to_bytes_le(_)
to_bytes_le(v) ==
    IF v < 256 THEN <<v>> ELSE <<v % 256>> \o to_bytes_le(v \div 256)

\* BigUint::from_bytes_le
RECURSIVE from_bytes_le(_)
from_bytes_le(bytes) ==
    IF bytes = <<>> THEN 0
    ELSE Head(bytes) + 256 * from_bytes_le(Tail(bytes))

\* Vec::resize(len, 0): truncate or pad with zeros
resize(bytes, len) ==
    [i \in 1..len |-> IF i <= Len(bytes) THEN bytes[i] ELSE 0]

\* PrimeField::to_repr / BaseExt::write: canonical little-endian bytes of
\* fixed width
to_repr(fe) == resize(to_bytes_le(fe), REPR_BYTES)

\* PrimeField::from_repr / BaseExt::read: None unless the bytes are the
\* canonical encoding of an element of the field of modulus m
None == [some |-> FALSE, val |-> 0]

Some(v) == [some |-> TRUE, val |-> v]

from_repr(bytes, m) ==
    IF from_bytes_le(bytes) < m THEN Some(from_bytes_le(bytes)) ELSE None

----------------------------------------------------------------------------
(* Big-integer bridge *)

\* modulus::<F>(): the field's modulus; a field F is named by its modulus
modulus(F) == F

fe_to_big(fe) == from_bytes_le(to_repr(fe))

\* big_to_fe without the reduction of e modulo the field's modulus
big_to_fe_no_reduce(e, F) ==
    from_repr(resize(to_bytes_le(e), REPR_BYTES), F).val

\* F::read(..).unwrap(): the reduced value always decodes
big_to_fe(e, F) ==
    LET m == modulus(F)
        bytes == resize(to_bytes_le(e % m), REPR_BYTES)
    IN from_repr(bytes, F).val

\* decompose_big without the shift of e between limbs
RECURSIVE decompose_big_no_shift(_, _, _, _)
decompose_big_no_shift(e, number_of_limbs, bit_len, F) ==
    IF number_of_limbs = 0 THEN <<>>
    ELSE LET mask == Pow(2, bit_len) - 1
             limb == e % (mask + 1)
         IN <<big_to_fe(limb, F)>> \o
            decompose_big_no_shift(e, number_of_limbs - 1, bit_len, F)

RECURSIVE decompose_big(_, _, _, _)
decompose_big(e, number_of_limbs, bit_len, F) ==
    IF number_of_limbs = 0 THEN <<>>
    ELSE LET mask == Pow(2, bit_len) - 1
             limb == e % (mask + 1)
         IN <<big_to_fe(limb, F)>> \o
            decompose_big(e \div Pow(2, bit_len), number_of_limbs - 1, bit_len, F)

decompose(e, number_of_limbs, bit_len, Scalar) ==
    decompose_big(fe_to_big(e), number_of_limbs, bit_len, Scalar)

\* native reducing modulo one less than modulus::<Scalar>()
native_wrong_modulus(e, Scalar) ==
    big_to_fe(fe_to_big(e) % (modulus(Scalar) - 1), Scalar)

native(e, Scalar) == big_to_fe(fe_to_big(e) % modulus(Scalar), Scalar)

\* sign with the opposite convention
sign_odd(fe) == (to_repr(fe)[1] % 2) = 1

\* (bytes[0] & 1) == 0
sign(fe) == (to_repr(fe)[1] % 2) = 0

----------------------------------------------------------------------------
(* The curve: CurveAffine over the base field of modulus C.p, with scalar  *)
(* field of modulus C.n and equation y^2 = x^3 + C.b.  The identity is     *)
(* the pair (0, 0), which is not on the affine curve.                      *)

identity == [x |-> 0, y |-> 0]

is_identity(point) == point.x = 0 /\ point.y = 0

is_on_curve(point, Cv) ==
    \/ is_identity(point)
    \/ (point.y * point.y) % Cv.p
         = (point.x * point.x * point.x + Cv.b) % Cv.p

\* the affine points of the curve
AffinePoints(Cv) ==
    {pt \in [x : 0..(Cv.p - 1), y : 0..(Cv.p - 1)] :
        ~is_identity(pt) /\ is_on_curve(pt, Cv)}

\* CurveAffine::coordinates: None for the identity
coordinates(point) ==
    IF is_identity(point) THEN None ELSE Some(<<point.x, point.y>>)

\* CurveAffine::to_bytes: x in canonical bytes, the low bit of y in the top
\* bit of the last byte; the identity is all zeros
to_bytes(point) ==
    IF is_identity(point) THEN [i \in 1..REPR_BYTES |-> 0]
    ELSE LET ysign == to_repr(point.y)[1] % 2
             xbytes == to_repr(point.x)
         IN [i \in 1..REPR_BYTES |->
                IF i = REPR_BYTES
                THEN (xbytes[i] % 128) + 128 * ysign
                ELSE xbytes[i]]

\* Field::sqrt: some square root, None when there is none
sqrt(v, p) ==
    IF \E y \in 0..(p - 1) : (y * y) % p = v % p
    THEN Some(CHOOSE y \in 0..(p - 1) : (y * y) % p = v % p)
    ELSE None

\* CurveAffine::from_bytes: None unless the bytes are the compressed
\* encoding of the identity or of a point of the curve
from_bytes(bytes, Cv) ==
    LET ysign == bytes[REPR_BYTES] \div 128
        tmp == [i \in 1..REPR_BYTES |->
                  IF i = REPR_BYTES THEN bytes[i] % 128 ELSE bytes[i]]
        x == from_repr(tmp, Cv.p)
    IN IF ~x.some THEN None
       ELSE IF x.val = 0 /\ ysign = 0 THEN Some(identity)
       ELSE LET y0 == sqrt(x.val * x.val * x.val + Cv.b, Cv.p)
            IN IF ~y0.some THEN None
               ELSE LET s == to_repr(y0.val)[1] % 2
                        y == IF s # ysign THEN (Cv.p - y0.val) % Cv.p
                             ELSE y0.val
                    IN Some([x |-> x.val, y |-> y])

----------------------------------------------------------------------------
(* Point representation strategies.  encode returns                        *)
(*   [kind |-> "ok", val |-> elements]  for Ok(elements),                  *)
(*   [kind |-> "err", ..]               for Err(point at infinity),        *)
(*   [kind |-> "panic", ..]             when an assert! fails.             *)

EncOk(v) == [kind |-> "ok", val |-> v]

EncErr == [kind |-> "err", val |-> <<>>]

EncPanic == [kind |-> "panic", val |-> <<>>]

\* PointRepresentation::xy
xy(point) == coordinates(point)

LimbRepresentation_encode(point, NUMBER_OF_LIMBS, BITLEN, Cv) ==
    IF ~is_on_curve(point, Cv) THEN EncPanic
    ELSE IF is_identity(point) THEN EncPanic
    ELSE IF ~xy(point).some THEN EncErr
    ELSE LET x == xy(point).val[1]
             y == xy(point).val[2]
         IN EncOk(decompose(x, NUMBER_OF_LIMBS, BITLEN, Cv.n)
                  \o <<IF sign(y) THEN 1 ELSE 0>>)

\* encode that reduces x twice and never y
NativeRepresentation_encode_x_twice(point, Cv) ==
    IF ~xy(point).some THEN EncErr
    ELSE LET x == xy(point).val[1]
         IN EncOk(<<native(x, Cv.n), native(x, Cv.n)>>)

\* encode that leaves y out
NativeRepresentation_encode_x_only(point, Cv) ==
    IF ~xy(point).some THEN EncErr
    ELSE EncOk(<<native(xy(point).val[1], Cv.n)>>)

NativeRepresentation_encode(point, Cv) ==
    IF ~xy(point).some THEN EncErr
    ELSE LET x == xy(point).val[1]
             y == xy(point).val[2]
         IN EncOk(<<native(x, Cv.n), native(y, Cv.n)>>)

Limb(l, b) == [kind |-> "limb", L |-> l, b |-> b]

Native == [kind |-> "native", L |-> 0, b |-> 0]

\* Z::encode(point)
encode(Zs, point, Cv) ==
    IF Zs.kind = "limb"
    THEN LimbRepresentation_encode(point, Zs.L, Zs.b, Cv)
    ELSE NativeRepresentation_encode(point, Cv)

----------------------------------------------------------------------------
(* The sponge: Poseidon<C::Scalar, T, RATE>.  `state` stands for the       *)
(* permutation state: the chunks added to it, one permutation each, in     *)
(* order.  `absorbing` is the absorbing line, shorter than RATE.           *)
(* `absorbed` is every element handed to update, in order.                 *)

Poseidon_new(r_f, r_p) ==
    [spec |-> <<r_f, r_p>>, state |-> <<>>, absorbing |-> <<>>,
     absorbed |-> <<>>]

RECURSIVE permute_chunks(_, _)
permute_chunks(st, input) ==
    IF Len(input) < RATE THEN [state |-> st, rest |-> input]
    ELSE permute_chunks(Append(st, SubSeq(input, 1, RATE)),
                        SubSeq(input, RATE + 1, Len(input)))

\* Poseidon::update
update(S, elements) ==
    LET r == permute_chunks(S.state, S.absorbing \o elements)
    IN [spec |-> S.spec, state |-> r.state, absorbing |-> r.rest,
        absorbed |-> S.absorbed \o elements]

\* Poseidon::squeeze: pads the absorbing line with one, permutes, and
\* returns an element of the permutation state
squeeze(S) ==
    LET st == Append(S.state, S.absorbing \o <<1>>)
    IN [sponge |-> [spec |-> S.spec, state |-> st, absorbing |-> <<>>,
                    absorbed |-> S.absorbed],
        out |-> <<S.spec, st>>]

\* Challenge::new and Challenge::get_scalar
Challenge_new(e) == [inner |-> e]

get_scalar(ch) == ch.inner

----------------------------------------------------------------------------
(* The Transcript implementations, as functions of the sponge.             *)

\* the elements of the slices &[/* PREFIX_... */]
PREFIX_CHALLENGE == <<>>

\* a point marker that is absorbed
PREFIX_POINT_marker == <<2>>

PREFIX_POINT == <<>>

PREFIX_SCALAR == <<>>

Ret(st, res) == [state |-> st, res |-> res]

PoseidonRead_squeeze_challenge(st) ==
    LET s1 == update(st, PREFIX_CHALLENGE)
        sq == squeeze(s1)
    IN [state |-> sq.sponge, ch |-> Challenge_new(sq.out)]

PoseidonRead_common_point(st, point, Zs, Cv) ==
    LET s1 == update(st, PREFIX_POINT)
        enc == encode(Zs, point, Cv)
    IN IF enc.kind = "ok" THEN Ret(update(s1, enc.val), "ok")
       ELSE Ret(s1, enc.kind)

\* common_scalar that absorbs the marker only
PoseidonRead_common_scalar_no_absorb(st, scalar) ==
    Ret(update(st, PREFIX_SCALAR), "ok")

PoseidonRead_common_scalar(st, scalar) ==
    Ret(update(update(st, PREFIX_SCALAR), <<scalar>>), "ok")

\* squeeze_challenge on a clone of the sponge
PoseidonWrite_squeeze_challenge_peek(st) ==
    LET s1 == update(st, PREFIX_CHALLENGE)
        sq == squeeze(s1)
    IN [state |-> s1, ch |-> Challenge_new(sq.out)]

PoseidonWrite_squeeze_challenge(st) ==
    LET s1 == update(st, PREFIX_CHALLENGE)
        sq == squeeze(s1)
    IN [state |-> sq.sponge, ch |-> Challenge_new(sq.out)]

PoseidonWrite_common_point(st, point, Zs, Cv) ==
    LET s1 == update(st, PREFIX_POINT)
        enc == encode(Zs, point, Cv)
    IN IF enc.kind = "ok" THEN Ret(update(s1, enc.val), "ok")
       ELSE Ret(s1, enc.kind)

PoseidonWrite_common_scalar(st, scalar) ==
    Ret(update(update(st, PREFIX_SCALAR), <<scalar>>), "ok")

\* Read::read_exact on a &[u8]: Err(UnexpectedEof) when the slice is too
\* short
read_exact(reader, len) ==
    IF Len(reader) < len THEN [ok |-> FALSE, buf |-> <<>>, rest |-> reader]
    ELSE [ok |-> TRUE, buf |-> SubSeq(reader, 1, len),
          rest |-> SubSeq(reader, len + 1, Len(reader))]

\* what is left of the slice after a failed read_exact: the std library
\* leaves it alone or empties it, depending on its version
AfterShortRead(reader) == {reader, <<>>}

----------------------------------------------------------------------------
(* Inputs *)

\* y^2 = x^3 + 7 over F_13 has 7 points, so n = 7 < p as for bn256;
\* y^2 = x^3 + 2 over F_13 has 19 points, so n = 19 > p
Curve13_7 == [p |-> 13, n |-> 7, b |-> 7]

Curve13_19 == [p |-> 13, n |-> 19, b |-> 2]

\* y^2 = x^3 + 5 over F_7 has 7 points, so n = p
Curve7_7 == [p |-> 7, n |-> 7, b |-> 5]

Curves == {Curve13_7, Curve13_19, Curve7_7}

\* the strategies the transcripts are run with
Strategies == {Limb(2, 2), Native}

\* the round parameters a reader is given: the writer's or others
RoundParams == {<<R_F, R_P>>, <<R_F, R_P - 1>>}

PointInputs == {[x |-> 8, y |-> 5], identity}

ScalarInputs == {1, 3}

\* items found in a buffer that is not a proof: a scalar that is no point,
\* two points that are no scalars, zeros (the scalar 0, the identity), and
\* bytes that are neither a scalar nor a point
ItemInputs ==
    {to_repr(3), to_bytes([x |-> 7, y |-> 5]), to_bytes([x |-> 7, y |-> 8]),
     [i \in 1..REPR_BYTES |-> 0], [i \in 1..REPR_BYTES |-> 255]}

\* the buffers a Read transcript is built on when they are not a proof: up
\* to two items, whole or one byte short
BufferInputs ==
    LET whole == {<<>>} \cup ItemInputs
                 \cup {a \o b : a \in ItemInputs, b \in ItemInputs}
    IN whole \cup {SubSeq(w, 1, Len(w) - 1) : w \in whole \ {<<>>}}

----------------------------------------------------------------------------
(* The log of calls *)

NoChallenge == Challenge_new(<<>>)

Entry(op, pt, sc, ch, res) ==
    [op |-> op, pt |-> pt, sc |-> sc, ch |-> ch, res |-> res]

----------------------------------------------------------------------------
(* Construction *)

\* PoseidonWrite::init(vec![], R_F, R_P); no PoseidonRead yet
Init ==
    /\ C = Curve13_7
    /\ Z \in Strategies
    /\ w_state = Poseidon_new(R_F, R_P)
    /\ w_writer = <<>>
    /\ w_status = "active"
    /\ w_log = <<>>
    /\ proof = <<>>
    /\ r_state = Poseidon_new(R_F, R_P)
    /\ r_reader = <<>>
    /\ r_status = "uninit"
    /\ r_log = <<>>
    /\ r_src = "none"
    /\ r_input = <<>>
    /\ fn_call = [fn |-> "none", e |-> 0, pt |-> identity]
    /\ fn_out = <<>>

WriterCanStep_after_finalize ==
    r_status = "uninit" /\ Len(w_log) < MaxWriteOps

WriterCanStep ==
    w_status = "active" /\ r_status = "uninit" /\ Len(w_log) < MaxWriteOps

ReaderCanStep == r_status = "active" /\ Len(r_log) < MaxReadOps

StatusAfter(res) == IF res = "panic" THEN "aborted" ELSE "active"

----------------------------------------------------------------------------
(* PoseidonWrite *)

Write_squeeze_challenge ==
    /\ WriterCanStep
    /\ LET r == PoseidonWrite_squeeze_challenge(w_state)
       IN /\ w_state' = r.state
          /\ w_log' = Append(w_log,
                 Entry("squeeze_challenge", identity, 0, r.ch, "ok"))
    /\ UNCHANGED <<C, Z, w_writer, w_status, proof, rVars, fn_call, fn_out>>

Write_common_point(point) ==
    /\ WriterCanStep
    /\ LET r == PoseidonWrite_common_point(w_state, point, Z, C)
       IN /\ w_state' = r.state
          /\ w_status' = StatusAfter(r.res)
          /\ w_log' = Append(w_log,
                 Entry("common_point", point, 0, NoChallenge, r.res))
    /\ UNCHANGED <<C, Z, w_writer, proof, rVars, fn_call, fn_out>>

\* common_scalar that also puts the scalar's bytes in the sink
Write_common_scalar_to_sink(scalar) ==
    /\ WriterCanStep
    /\ LET r == PoseidonWrite_common_scalar(w_state, scalar)
       IN /\ w_state' = r.state
          /\ w_writer' = w_writer \o to_repr(scalar)
          /\ w_log' = Append(w_log,
                 Entry("common_scalar", identity, scalar, NoChallenge, r.res))
    /\ UNCHANGED <<C, Z, w_status, proof, rVars, fn_call, fn_out>>

Write_common_scalar(scalar) ==
    /\ WriterCanStep
    /\ LET r == PoseidonWrite_common_scalar(w_state, scalar)
       IN /\ w_state' = r.state
          /\ w_log' = Append(w_log,
                 Entry("common_scalar", identity, scalar, NoChallenge, r.res))
    /\ UNCHANGED <<C, Z, w_writer, w_status, proof, rVars, fn_call, fn_out>>

\* write_point that puts the bytes in front of the sink
write_point_sink_prepend(writer, point, res) ==
    IF res = "ok" THEN to_bytes(point) \o writer ELSE writer

\* write_point that appends the bytes whatever common_point returned
write_point_sink_always(writer, point, res) == writer \o to_bytes(point)

\* what write_point does to the sink once common_point has returned res
write_point_sink(writer, point, res) ==
    IF res = "ok" THEN writer \o to_bytes(point) ELSE writer

Write_write_point(point) ==
    /\ WriterCanStep
    /\ LET r == PoseidonWrite_common_point(w_state, point, Z, C)
       IN /\ w_state' = r.state
          /\ w_status' = StatusAfter(r.res)
          /\ w_writer' = write_point_sink(w_writer, point, r.res)
          /\ w_log' = Append(w_log,
                 Entry("write_point", point, 0, NoChallenge, r.res))
    /\ UNCHANGED <<C, Z, proof, rVars, fn_call, fn_out>>

\* what write_scalar does to the sink once common_scalar has returned res
write_scalar_sink(writer, scalar, res) ==
    IF res = "ok" THEN writer \o to_repr(scalar) ELSE writer

\* write_scalar whose absorption looks at what the sink already holds
Write_write_scalar_sink_dependent(scalar) ==
    /\ WriterCanStep
    /\ LET r == PoseidonWrite_common_scalar(w_state,
                   (scalar + Len(w_writer)) % modulus(C.n))
       IN /\ w_state' = r.state
          /\ w_writer' = write_scalar_sink(w_writer, scalar, r.res)
          /\ w_log' = Append(w_log,
                 Entry("write_scalar", identity, scalar, NoChallenge, r.res))
    /\ UNCHANGED <<C, Z, w_status, proof, rVars, fn_call, fn_out>>

Write_write_scalar(scalar) ==
    /\ WriterCanStep
    /\ LET r == PoseidonWrite_common_scalar(w_state, scalar)
       IN /\ w_state' = r.state
          /\ w_writer' = write_scalar_sink(w_writer, scalar, r.res)
          /\ w_log' = Append(w_log,
                 Entry("write_scalar", identity, scalar, NoChallenge, r.res))
    /\ UNCHANGED <<C, Z, w_status, proof, rVars, fn_call, fn_out>>

\* finalize(self) -> W: the transcript is moved out of
finalize ==
    /\ w_status = "active"
    /\ r_status = "uninit"
    /\ w_status' = "finalized"
    /\ proof' = w_writer
    /\ UNCHANGED <<C, Z, w_state, w_writer, w_log, rVars, fn_call, fn_out>>

----------------------------------------------------------------------------
(* PoseidonRead *)

\* PoseidonRead::init(&proof[..], r_f, r_p)
Read_init_proof(rp) ==
    /\ w_status = "finalized"
    /\ r_status = "uninit"
    /\ r_status' = "active"
    /\ r_state' = Poseidon_new(rp[1], rp[2])
    /\ r_reader' = proof
    /\ r_input' = proof
    /\ r_src' = "proof"
    /\ UNCHANGED <<C, Z, wVars, r_log, fn_call, fn_out>>

\* PoseidonRead::init(&buf[..], R_F, R_P) on bytes that are not a proof
Read_init_bytes(buf) ==
    /\ w_status = "active"
    /\ w_log = <<>>
    /\ r_status = "uninit"
    /\ r_status' = "active"
    /\ r_state' = Poseidon_new(R_F, R_P)
    /\ r_reader' = buf
    /\ r_input' = buf
    /\ r_src' = "bytes"
    /\ UNCHANGED <<C, Z, wVars, r_log, fn_call, fn_out>>

Read_squeeze_challenge ==
    /\ ReaderCanStep
    /\ LET r == PoseidonRead_squeeze_challenge(r_state)
       IN /\ r_state' = r.state
          /\ r_log' = Append(r_log,
                 Entry("squeeze_challenge", identity, 0, r.ch, "ok"))
    /\ UNCHANGED <<C, Z, wVars, r_reader, r_status, r_src, r_input,
                   fn_call, fn_out>>

Read_common_point(point) ==
    /\ ReaderCanStep
    /\ LET r == PoseidonRead_common_point(r_state, point, Z, C)
       IN /\ r_state' = r.state
          /\ r_status' = StatusAfter(r.res)
          /\ r_log' = Append(r_log,
                 Entry("common_point", point, 0, NoChallenge, r.res))
    /\ UNCHANGED <<C, Z, wVars, r_reader, r_src, r_input, fn_call, fn_out>>

Read_common_scalar(scalar) ==
    /\ ReaderCanStep
    /\ LET r == PoseidonRead_common_scalar(r_state, scalar)
       IN /\ r_state' = r.state
          /\ r_log' = Append(r_log,
                 Entry("common_scalar", identity, scalar, NoChallenge, r.res))
    /\ UNCHANGED <<C, Z, wVars, r_reader, r_status, r_src, r_input,
                   fn_call, fn_out>>

\* read_point as a function of the sponge and the source: the sponge
\* after, the point and the result ("eof", "invalid", or what common_point
\* returned)
PoseidonRead_read_point(st, reader, Zs, Cv) ==
    LET rd == read_exact(reader, REPR_BYTES)
    IN IF ~rd.ok THEN [state |-> st, pt |-> identity, res |-> "eof"]
       ELSE LET point == from_bytes(rd.buf, Cv)
            IN IF ~point.some
               THEN [state |-> st, pt |-> identity, res |-> "invalid"]
               ELSE LET r == PoseidonRead_common_point(st, point.val, Zs, Cv)
                    IN [state |-> r.state, pt |-> point.val, res |-> r.res]

\* read_point that puts back the bytes it could not decode
Read_read_point_rewind ==
    /\ ReaderCanStep
    /\ LET r == PoseidonRead_read_point(r_state, r_reader, Z, C)
           rd == read_exact(r_reader, REPR_BYTES)
       IN /\ r_state' = r.state
          /\ r_status' = StatusAfter(r.res)
          /\ IF rd.ok
             THEN r_reader' = IF r.res = "invalid" THEN r_reader ELSE rd.rest
             ELSE r_reader' \in AfterShortRead(r_reader)
          /\ r_log' = Append(r_log,
                 Entry("read_point",
                       IF r.res = "ok" THEN r.pt ELSE identity,
                       0, NoChallenge, r.res))
    /\ UNCHANGED <<C, Z, wVars, r_src, r_input, fn_call, fn_out>>

Read_read_point ==
    /\ ReaderCanStep
    /\ LET r == PoseidonRead_read_point(r_state, r_reader, Z, C)
           rd == read_exact(r_reader, REPR_BYTES)
       IN /\ r_state' = r.state
          /\ r_status' = StatusAfter(r.res)
          /\ IF rd.ok THEN r_reader' = rd.rest
                      ELSE r_reader' \in AfterShortRead(r_reader)
          /\ r_log' = Append(r_log,
                 Entry("read_point",
                       IF r.res = "ok" THEN r.pt ELSE identity,
                       0, NoChallenge, r.res))
    /\ UNCHANGED <<C, Z, wVars, r_src, r_input, fn_call, fn_out>>

\* read_scalar that pads a short read with zeros
PoseidonRead_read_scalar_zero_pad(st, reader, Cv) ==
    LET buf == resize(reader, REPR_BYTES)
        scalar == from_repr(buf, Cv.n)
    IN IF ~scalar.some
       THEN [state |-> st, sc |-> 0, res |-> "invalid"]
       ELSE LET r == PoseidonRead_common_scalar(st, scalar.val)
            IN [state |-> r.state, sc |-> scalar.val, res |-> r.res]

\* read_scalar that reduces the bytes instead of refusing them
PoseidonRead_read_scalar_reduce(st, reader, Cv) ==
    LET rd == read_exact(reader, REPR_BYTES)
    IN IF ~rd.ok THEN [state |-> st, sc |-> 0, res |-> "eof"]
       ELSE LET scalar == from_bytes_le(rd.buf) % Cv.n
                r == PoseidonRead_common_scalar(st, scalar)
            IN [state |-> r.state, sc |-> scalar, res |-> r.res]

PoseidonRead_read_scalar(st, reader, Cv) ==
    LET rd == read_exact(reader, REPR_BYTES)
    IN IF ~rd.ok THEN [state |-> st, sc |-> 0, res |-> "eof"]
       ELSE LET scalar == from_repr(rd.buf, Cv.n)
            IN IF ~scalar.some
               THEN [state |-> st, sc |-> 0, res |-> "invalid"]
               ELSE LET r == PoseidonRead_common_scalar(st, scalar.val)
                    IN [state |-> r.state, sc |-> scalar.val, res |-> r.res]

Read_read_scalar ==
    /\ ReaderCanStep
    /\ LET r == PoseidonRead_read_scalar(r_state, r_reader, C)
           rd == read_exact(r_reader, REPR_BYTES)
       IN /\ r_state' = r.state
          /\ IF rd.ok THEN r_reader' = rd.rest
                      ELSE r_reader' \in AfterShortRead(r_reader)
          /\ r_log' = Append(r_log,
                 Entry("read_scalar", identity,
                       IF r.res = "ok" THEN r.sc ELSE 0,
                       NoChallenge, r.res))
    /\ UNCHANGED <<C, Z, wVars, r_status, r_src, r_input, fn_call, fn_out>>

----------------------------------------------------------------------------
(* The transcripts' specification *)

Next ==
    \/ Write_squeeze_challenge
    \/ \E point \in PointInputs : Write_common_point(point)
    \/ \E scalar \in ScalarInputs : Write_common_scalar(scalar)
    \/ \E point \in PointInputs : Write_write_point(point)
    \/ \E scalar \in ScalarInputs : Write_write_scalar(scalar)
    \/ finalize
    \/ \E rp \in RoundParams : Read_init_proof(rp)
    \/ \E buf \in BufferInputs : Read_init_bytes(buf)
    \/ Read_squeeze_challenge
    \/ \E point \in PointInputs : Read_common_point(point)
    \/ \E scalar \in ScalarInputs : Read_common_scalar(scalar)
    \/ Read_read_point
    \/ Read_read_scalar

Spec == Init /\ [][Next]_vars

----------------------------------------------------------------------------
(* The helper functions' specification: the type parameters are drawn at   *)
(* construction, and every step is one call of a helper or of encode,      *)
(* recorded with what it returned.                                         *)

\* LimbRepresentation<C, NUMBER_OF_LIMBS, BITLEN> for the small parameters
LimbStrategies == {Limb(l, b) : l \in 1..MaxLimbs, b \in 1..MaxBitLen}

Called(fn, e, pt) == [fn |-> fn, e |-> e, pt |-> pt]

InitFn ==
    /\ C \in Curves
    /\ Z \in LimbStrategies \cup {Native}
    /\ w_state = Poseidon_new(R_F, R_P)
    /\ w_writer = <<>>
    /\ w_status = "active"
    /\ w_log = <<>>
    /\ proof = <<>>
    /\ r_state = Poseidon_new(R_F, R_P)
    /\ r_reader = <<>>
    /\ r_status = "uninit"
    /\ r_log = <<>>
    /\ r_src = "none"
    /\ r_input = <<>>
    /\ fn_call = Called("none", 0, identity)
    /\ fn_out = <<>>

Call_decompose(e) ==
    /\ Z.kind = "limb"
    /\ fn_call' = Called("decompose", e, identity)
    /\ fn_out' = decompose(e, Z.L, Z.b, C.n)
    /\ UNCHANGED <<C, Z, trVars>>

Call_encode(point) ==
    /\ fn_call' = Called("encode", 0, point)
    /\ fn_out' = encode(Z, point, C)
    /\ UNCHANGED <<C, Z, trVars>>

Call_native(e) ==
    /\ fn_call' = Called("native", e, identity)
    /\ fn_out' = native(e, C.n)
    /\ UNCHANGED <<C, Z, trVars>>

Call_big_to_fe(e) ==
    /\ fn_call' = Called("big_to_fe", e, identity)
    /\ fn_out' = big_to_fe(e, C.n)
    /\ UNCHANGED <<C, Z, trVars>>

Call_fe_to_big(e) ==
    /\ fn_call' = Called("fe_to_big", e, identity)
    /\ fn_out' = fe_to_big(e)
    /\ UNCHANGED <<C, Z, trVars>>

NextFn ==
    \/ \E e \in 0..(C.p - 1) : Call_decompose(e)
    \/ \E point \in AffinePoints(C) \cup {identity} : Call_encode(point)
    \/ \E e \in 0..(C.p - 1) : Call_native(e)
    \/ \E e \in 0..MaxBig : Call_big_to_fe(e)
    \/ \E e \in 0..(C.p - 1) : Call_fe_to_big(e)

SpecFn == InitFn /\ [][NextFn]_vars

----------------------------------------------------------------------------
(* Vocabulary of the properties *)

Last(q) == q[Len(q)]

AllOk(log) == \A i \in 1..Len(log) : log[i].res = "ok"

\* the call a reader makes where the writer made op
Replay(op) ==
    CASE op = "write_point" -> "read_point"
      [] op = "write_scalar" -> "read_scalar"
      [] OTHER -> op

\* the kind of an operation: point, scalar or challenge
Kind(op) ==
    CASE op \in {"write_point", "read_point", "common_point"} -> "point"
      [] op \in {"write_scalar", "read_scalar", "common_scalar"} -> "scalar"
      [] OTHER -> "challenge"

WriterCalled == w_log' # w_log

ReaderCalled == r_log' # r_log

----------------------------------------------------------------------------
(* C1 *)

\* the writer only wrote and squeezed, every call succeeded, and the reader
\* was built on the proof with the same round parameters and has so far
\* replayed the writer's calls
IsReplay ==
    /\ r_src = "proof"
    /\ r_state.spec = w_state.spec
    /\ AllOk(w_log)
    /\ \A i \in 1..Len(w_log) :
          w_log[i].op \in {"write_point", "write_scalar", "squeeze_challenge"}
    /\ Len(r_log) <= Len(w_log)
    /\ \A i \in 1..Len(r_log) : r_log[i].op = Replay(w_log[i].op)

\* C1: a reader built on the bytes finalize returned, replaying the
\* writer's calls, gets at every position the point or scalar that was
\* written, and at every squeeze the writer's challenge.
RoundTripDeterminism ==
    IsReplay =>
        \A i \in 1..Len(r_log) :
            /\ r_log[i].res = "ok"
            /\ r_log[i].pt = w_log[i].pt
            /\ r_log[i].sc = w_log[i].sc
            /\ get_scalar(r_log[i].ch) = get_scalar(w_log[i].ch)

RoundTripWitness ==
    /\ IsReplay
    /\ Len(r_log) = 2
    /\ r_log[1].op \in {"read_point", "read_scalar"}
    /\ r_log[2].op = "squeeze_challenge"

----------------------------------------------------------------------------
(* C2 *)

RECURSIVE ExpectedBytes(_)
ExpectedBytes(log) ==
    IF log = <<>> THEN <<>>
    ELSE LET e == Head(log)
             bytes == CASE e.op = "write_point" -> to_bytes(e.pt)
                        [] e.op = "write_scalar" -> to_repr(e.sc)
                        [] OTHER -> <<>>
         IN bytes \o ExpectedBytes(Tail(log))

\* C2: after successful calls the sink, and the bytes finalize returns, are
\* the concatenation in call order of the compressed encoding of every
\* written point and the canonical encoding of every written scalar, and
\* nothing else.
WireFormat ==
    AllOk(w_log) =>
        /\ w_writer = ExpectedBytes(w_log)
        /\ w_status = "finalized" => proof = ExpectedBytes(w_log)

WireFormatWitness ==
    /\ w_status = "finalized"
    /\ Len(w_log) = 2
    /\ w_log[1].op = "write_point" /\ w_log[1].res = "ok"
    /\ w_log[2].op = "write_scalar"
    /\ Len(proof) = 2 * REPR_BYTES

----------------------------------------------------------------------------
(* C3 *)

\* C3: two transcripts whose successful calls differ in kind at some
\* position have absorbed different sequences of elements.
DistinctMarkers ==
    (/\ r_status = "active"
     /\ r_state.spec = w_state.spec
     /\ AllOk(w_log) /\ AllOk(r_log)
     /\ \E i \in 1..Len(w_log) :
           i <= Len(r_log) /\ Kind(w_log[i].op) # Kind(r_log[i].op))
    => w_state.absorbed # r_state.absorbed

----------------------------------------------------------------------------
(* C4 *)

IdentityAttempt(e) ==
    e.op \in {"common_point", "write_point"} /\ is_identity(e.pt)

\* C4: common_point and write_point of the identity fail and leave the
\* sponge as it was, so that a squeeze afterwards gives the challenge it
\* would have given before.
IdentityRejection ==
    [][/\ (WriterCalled /\ IdentityAttempt(Last(w_log'))) =>
            /\ Last(w_log').res # "ok"
            /\ w_state' = w_state
            /\ PoseidonWrite_squeeze_challenge(w_state').ch
                 = PoseidonWrite_squeeze_challenge(w_state).ch
       /\ (ReaderCalled /\ IdentityAttempt(Last(r_log'))) =>
            /\ Last(r_log').res # "ok"
            /\ r_state' = r_state
            /\ PoseidonRead_squeeze_challenge(r_state').ch
                 = PoseidonRead_squeeze_challenge(r_state).ch]_vars

IdentityRejectionWitness ==
    /\ Len(w_log) = 2
    /\ w_log[1].op = "common_scalar"
    /\ IdentityAttempt(w_log[2])
    /\ w_log[2].res = "err"

----------------------------------------------------------------------------
(* C5 *)

\* C5: under every strategy the identity is refused with a returned error,
\* and the transcript stays usable.
IdentityIsAnError ==
    /\ \A i \in 1..Len(w_log) :
          IdentityAttempt(w_log[i]) => w_log[i].res = "err"
    /\ \A i \in 1..Len(r_log) :
          IdentityAttempt(r_log[i]) => r_log[i].res = "err"
    /\ w_status # "aborted"
    /\ r_status # "aborted"

----------------------------------------------------------------------------
(* C6 *)

ConsecutiveSqueezesDiffer(log) ==
    \A i \in 1..(Len(log) - 1) :
        (log[i].op = "squeeze_challenge" /\ log[i + 1].op = "squeeze_challenge")
        => get_scalar(log[i].ch) # get_scalar(log[i + 1].ch)

\* C6: two squeeze_challenge calls in a row, on a writer or on a reader,
\* return different challenges.
SqueezeNotIdempotent ==
    ConsecutiveSqueezesDiffer(w_log) /\ ConsecutiveSqueezesDiffer(r_log)

SqueezeNotIdempotentWitness ==
    /\ Len(w_log) = 2
    /\ w_log[1].op = "squeeze_challenge"
    /\ w_log[2].op = "squeeze_challenge"
    /\ Len(r_log) = 2
    /\ r_log[1].op = "squeeze_challenge"
    /\ r_log[2].op = "squeeze_challenge"

----------------------------------------------------------------------------
(* C7 *)

IsRead(e) == e.op \in {"read_point", "read_scalar"}

\* C7: a read that finds fewer bytes than the width of its item returns
\* the stream-exhaustion error, no value, and absorbs nothing.
ShortReadFails ==
    [][(ReaderCalled /\ IsRead(Last(r_log')) /\ Len(r_reader) < REPR_BYTES)
       => /\ Last(r_log').res = "eof"
          /\ r_state' = r_state
          /\ r_status' = r_status]_vars

ShortReadWitness ==
    /\ r_src = "bytes"
    /\ Len(r_input) = 2 * REPR_BYTES - 1
    /\ Len(r_log) = 2
    /\ r_log[1].res = "ok"
    /\ r_log[2].op = "read_scalar"
    /\ r_log[2].res = "eof"

----------------------------------------------------------------------------
(* C8 *)

NextItem == SubSeq(r_reader, 1, REPR_BYTES)

Undecodable(op) ==
    /\ Len(r_reader) >= REPR_BYTES
    /\ \/ op = "read_point" /\ ~from_bytes(NextItem, C).some
       \/ op = "read_scalar" /\ ~from_repr(NextItem, C.n).some

\* C8: a read whose bytes are not a point of the curve, or not a canonical
\* scalar, returns the decoding error at once: it reads one item, and the
\* sponge is as it was.
BadEncodingFails ==
    [][(ReaderCalled /\ IsRead(Last(r_log')) /\ Undecodable(Last(r_log').op))
       => /\ Last(r_log').res = "invalid"
          /\ r_state' = r_state
          /\ r_status' = r_status
          /\ Len(r_reader') = Len(r_reader) - REPR_BYTES]_vars

BadEncodingWitness ==
    /\ Len(r_log) = 2
    /\ r_log[1].op = "read_point" /\ r_log[1].res = "invalid"
    /\ r_log[2].op = "read_scalar" /\ r_log[2].res = "invalid"

----------------------------------------------------------------------------
(* C9 *)

RECURSIVE Reconstruct(_, _)
Reconstruct(limbs, bit_len) ==
    IF limbs = <<>> THEN 0
    ELSE Head(limbs) + Pow(2, bit_len) * Reconstruct(Tail(limbs), bit_len)

DecomposeCalled ==
    /\ fn_call.fn = "decompose"
    /\ Z.L * Z.b >= BitLength(C.p)

\* C9 as stated: whenever L * b covers the bit length of the base modulus,
\* the limbs of x put together again, modulo the base modulus, are x.
LimbRoundTripAnyWidth ==
    DecomposeCalled =>
        /\ Len(fn_out) = Z.L
        /\ Reconstruct(fn_out, Z.b) % C.p = fn_call.e

\* C9, amended: the same, for limbs that fit the scalar field
\* (2^b <= scalar modulus).
LimbRoundTrip ==
    (DecomposeCalled /\ Pow(2, Z.b) <= C.n) =>
        /\ Len(fn_out) = Z.L
        /\ Reconstruct(fn_out, Z.b) % C.p = fn_call.e

LimbRoundTripWitness ==
    /\ DecomposeCalled
    /\ Pow(2, Z.b) <= C.n
    /\ C.n < C.p
    /\ Z.L >= 2
    /\ fn_call.e >= Pow(2, Z.b)
    /\ fn_out[2] # 0

----------------------------------------------------------------------------
(* C10 *)

EncodeCalled ==
    /\ fn_call.fn = "encode"
    /\ Z.kind = "limb"
    /\ ~is_identity(fn_call.pt)
    /\ is_on_curve(fn_call.pt, C)

Digit(x, i, bit_len) == (x \div Pow(2, i * bit_len)) % Pow(2, bit_len)

ParityMarker(y) == IF to_repr(y)[1] % 2 = 0 THEN 1 ELSE 0

\* C10 as stated: the encoding of (x, y) is the L digits of x in base 2^b,
\* least significant first, and then the parity marker of y.
LimbEncodingIsDigits ==
    EncodeCalled =>
        /\ fn_out.kind = "ok"
        /\ Len(fn_out.val) = Z.L + 1
        /\ \A i \in 0..(Z.L - 1) :
              fn_out.val[i + 1] = Digit(fn_call.pt.x, i, Z.b)
        /\ fn_out.val[Z.L + 1] = ParityMarker(fn_call.pt.y)

\* C10, amended: each of the L elements is the digit reduced modulo the
\* scalar modulus (the digit itself when 2^b <= scalar modulus).
LimbEncoding ==
    EncodeCalled =>
        /\ fn_out.kind = "ok"
        /\ Len(fn_out.val) = Z.L + 1
        /\ \A i \in 0..(Z.L - 1) :
              /\ fn_out.val[i + 1] = Digit(fn_call.pt.x, i, Z.b) % C.n
              /\ Pow(2, Z.b) <= C.n =>
                    fn_out.val[i + 1] = Digit(fn_call.pt.x, i, Z.b)
        /\ fn_out.val[Z.L + 1] = ParityMarker(fn_call.pt.y)

LimbEncodingWitness ==
    /\ EncodeCalled
    /\ Z.L >= 2
    /\ fn_out.val[1] # Digit(fn_call.pt.x, 0, Z.b)
    /\ fn_out.val[Z.L + 1] = 1

----------------------------------------------------------------------------
(* C11 *)

NativeEncodeCalled ==
    /\ fn_call.fn = "encode"
    /\ Z.kind = "native"
    /\ ~is_identity(fn_call.pt)

\* C11: the native encoding of a point (x, y) other than the identity is
\* the two elements x mod n and y mod n.
NativeEncoding ==
    NativeEncodeCalled =>
        /\ fn_out.kind = "ok"
        /\ Len(fn_out.val) = 2
        /\ fn_out.val[1] = fn_call.pt.x % C.n
        /\ fn_out.val[2] = fn_call.pt.y % C.n

NativeEncodingWitness ==
    /\ NativeEncodeCalled
    /\ fn_call.pt.x >= C.n
    /\ fn_call.pt.y < C.n
    /\ fn_out.val[1] # fn_out.val[2]

----------------------------------------------------------------------------
(* C12 *)

\* two base-field elements have the same native encoding
NativeCollides(Cv) ==
    \E e1, e2 \in 0..(Cv.p - 1) :
        e1 # e2 /\ native(e1, Cv.n) = native(e2, Cv.n)

\* C12 as stated: native collides whenever the base modulus is not smaller
\* than the scalar modulus, and is injective when it is smaller.
NativeLossyFromEqual ==
    fn_call.fn = "native" =>
        /\ C.p >= C.n => NativeCollides(C)
        /\ C.p < C.n => ~NativeCollides(C)

\* C12, amended: native collides whenever the base modulus is larger than
\* the scalar modulus, and is injective when it is not larger.
NativeLossy ==
    fn_call.fn = "native" =>
        /\ C.p > C.n => NativeCollides(C)
        /\ C.p <= C.n => ~NativeCollides(C)

NativeLossyWitness ==
    /\ C.p > C.n
    /\ fn_call.fn = "native"
    /\ fn_call.e >= C.n
    /\ fn_out = native(fn_call.e - C.n, C.n)

----------------------------------------------------------------------------
(* C13 *)

\* on fresh transcripts, a absorbed the scalar v and b a point whose x is v
\* in the scalar field, and both squeezed next
ScalarAgainstPoint(a, b) ==
    /\ Len(a) >= 2 /\ Len(b) >= 2
    /\ a[1].op = "common_scalar"
    /\ b[1].op = "common_point" /\ b[1].res = "ok"
    /\ native(b[1].pt.x, C.n) = a[1].sc
    /\ a[2].op = "squeeze_challenge"
    /\ b[2].op = "squeeze_challenge"

\* C13: with the same round parameters and the native strategy,
\* common_scalar(v) then squeeze_challenge and common_point of a point of
\* x-coordinate v then squeeze_challenge give different challenges.
CrossKindChallenges ==
    (/\ Z.kind = "native"
     /\ r_status = "active"
     /\ r_state.spec = w_state.spec
     /\ ScalarAgainstPoint(w_log, r_log) \/ ScalarAgainstPoint(r_log, w_log))
    => get_scalar(w_log[2].ch) # get_scalar(r_log[2].ch)

CrossKindWitness ==
    /\ Z.kind = "native"
    /\ r_status = "active"
    /\ r_state.spec = w_state.spec
    /\ ScalarAgainstPoint(w_log, r_log)

----------------------------------------------------------------------------
(* C14 *)

\* a step that finalize takes: the transcript was in use, and the caller
\* receives the bytes accumulated in the sink
FinalizeStep == w_status # "finalized" /\ w_status' = "finalized"

\* C14: a write transcript is finalized from a fresh or active state only,
\* finalize hands the caller exactly the accumulated sink, finalize can be
\* taken whenever the transcript is fresh or active, and once finalized no
\* operation acts on the transcript again: its sponge, sink, log and the
\* bytes returned never change
Lifecycle ==
    [][ /\ (FinalizeStep => w_status = "active" /\ proof' = w_writer
                            /\ UNCHANGED <<w_state, w_writer, w_log>>)
        /\ (proof' # proof => FinalizeStep)
        /\ ((w_status = "active" /\ r_status = "uninit") => ENABLED finalize)
        /\ (w_status = "finalized" => UNCHANGED wVars) ]_vars

LifecycleWitness ==
    /\ w_status = "finalized"
    /\ Len(w_log) = MaxWriteOps
    /\ proof = w_writer
    /\ proof # <<>>
    /\ r_status = "active"
    /\ Len(r_log) > 0

----------------------------------------------------------------------------
(* C15 *)

\* C15: big_to_fe returns, for every unsigned integer, the element of the
\* target field whose canonical value is the integer reduced modulo the
\* field's modulus, and big_to_fe after fe_to_big on one field gives back
\* the element
BigBridge ==
    /\ fn_call.fn = "big_to_fe" => fn_out = fn_call.e % modulus(C.n)
    /\ fn_call.fn = "fe_to_big" =>
           /\ fn_out = fn_call.e
           /\ big_to_fe(fn_out, C.p) = fn_call.e

BigBridgeWitness ==
    /\ fn_call.fn = "big_to_fe"
    /\ fn_call.e >= 2 * modulus(C.n)
    /\ fn_out # 0
    /\ fn_out = fn_call.e - 2 * modulus(C.n)

----------------------------------------------------------------------------
(* C16 *)

\* the sponge a write transcript reaches from st by the operations of log,
\* computed from the operations and their arguments alone
RECURSIVE SpongeAfter(_, _)
SpongeAfter(st, log) ==
    IF log = <<>> THEN st
    ELSE LET e == Head(log)
             next ==
                 CASE Kind(e.op) = "point" ->
                          PoseidonWrite_common_point(st, e.pt, Z, C).state
                   [] Kind(e.op) = "scalar" ->
                          PoseidonWrite_common_scalar(st, e.sc).state
                   [] OTHER -> PoseidonWrite_squeeze_challenge(st).state
         IN SpongeAfter(next, Tail(log))

\* the bytes a write transcript has put out after the operations of log,
\* computed from the operations, their arguments and their results alone
RECURSIVE SinkAfter(_)
SinkAfter(log) ==
    IF log = <<>> THEN <<>>
    ELSE LET e == Last(log)
             bytes ==
                 CASE e.op = "write_point" /\ e.res = "ok" -> to_bytes(e.pt)
                   [] e.op = "write_scalar" /\ e.res = "ok" -> to_repr(e.sc)
                   [] OTHER -> <<>>
         IN SinkAfter(SubSeq(log, 1, Len(log) - 1)) \o bytes

\* the two transcripts went through the same k operations with the same
\* arguments, whether an item was written, read or only absorbed
SameOperations(k) ==
    /\ k <= Len(w_log) /\ k <= Len(r_log)
    /\ \A i \in 1..k :
          /\ Kind(w_log[i].op) = Kind(r_log[i].op)
          /\ w_log[i].res = "ok" /\ r_log[i].res = "ok"
          /\ w_log[i].pt = r_log[i].pt
          /\ w_log[i].sc = r_log[i].sc

\* C16: the sponge of a write transcript, every challenge it squeezed and
\* the bytes it put out are determined by the round parameters, the
\* strategy and the ordered operations with their arguments; and a second
\* transcript with the same round parameters that went through the same
\* operations squeezed the same challenges, whatever its sink or source
\* holds
ChallengeDeterminism ==
    /\ w_state = SpongeAfter(Poseidon_new(R_F, R_P), w_log)
    /\ w_writer = SinkAfter(w_log)
    /\ \A i \in 1..Len(w_log) :
          w_log[i].op = "squeeze_challenge" =>
              w_log[i].ch = PoseidonWrite_squeeze_challenge(
                  SpongeAfter(Poseidon_new(R_F, R_P),
                              SubSeq(w_log, 1, i - 1))).ch
    /\ \A k \in 1..MaxWriteOps :
          (r_status = "active" /\ r_state.spec = w_state.spec
             /\ SameOperations(k))
          => r_log[k].ch = w_log[k].ch

ChallengeDeterminismWitness ==
    /\ r_status = "active"
    /\ r_state.spec = w_state.spec
    /\ SameOperations(2)
    /\ w_log[1].op = "write_scalar"
    /\ r_log[1].op = "common_scalar"
    /\ w_log[2].op = "squeeze_challenge"
    /\ r_reader = r_input
    /\ r_reader = w_writer
    /\ w_writer # <<>>

----------------------------------------------------------------------------
(* C17 *)

\* the operations of the Transcript trait
TranscriptOps == {"common_point", "common_scalar", "squeeze_challenge"}

\* C17: common_point, common_scalar and squeeze_challenge leave a write
\* transcript's sink as it was and a read transcript's source and position
\* as they were, and squeeze_challenge on a read transcript succeeds, also
\* when nothing is left to read
TranscriptOpsFrame ==
    [][ /\ (WriterCalled /\ Last(w_log').op \in TranscriptOps)
            => w_writer' = w_writer /\ proof' = proof
        /\ (ReaderCalled /\ Last(r_log').op \in TranscriptOps)
            => r_reader' = r_reader /\ r_input' = r_input
        /\ (ReaderCalled /\ Last(r_log').op = "squeeze_challenge")
            => Last(r_log').res = "ok"
        /\ (ReaderCanStep /\ r_reader = <<>>)
            => ENABLED Read_squeeze_challenge ]_vars

TranscriptOpsFrameWitness ==
    /\ Len(w_log) = 2
    /\ w_log[1].op = "write_scalar"
    /\ w_log[2].op = "common_scalar"
    /\ w_writer = to_repr(w_log[1].sc)
    /\ Len(r_log) = 2
    /\ r_log[1].op = "read_scalar" /\ r_log[1].res = "ok"
    /\ r_log[2].op = "squeeze_challenge" /\ r_log[2].res = "ok"
    /\ r_input # <<>>
    /\ r_reader = <<>>

----------------------------------------------------------------------------
(* C18 *)

\* what an item contributes to the sponge and to the sink
Payload(e) ==
    IF Kind(e.op) = "point" THEN encode(Z, e.pt, C).val ELSE <<e.sc>>

ItemBytes(e) ==
    IF Kind(e.op) = "point" THEN to_bytes(e.pt) ELSE to_repr(e.sc)

IsAbsorbed(e) == Kind(e.op) # "challenge" /\ e.res = "ok"

IsWritten(e) == e.op \in {"write_point", "write_scalar"} /\ e.res = "ok"

RECURSIVE Payloads(_)
Payloads(items) ==
    IF items = <<>> THEN <<>>
    ELSE Payload(Head(items)) \o Payloads(Tail(items))

RECURSIVE AllBytes(_)
AllBytes(items) ==
    IF items = <<>> THEN <<>>
    ELSE ItemBytes(Head(items)) \o AllBytes(Tail(items))

\* C18: the sponge has absorbed exactly the items of the calls that
\* succeeded, and the sink holds, in the same order, the encodings of those
\* among them that write_point and write_scalar wrote: a write that fails
\* (the point is rejected) has put nothing in the sink, and no bytes are in
\* the sink whose item the sponge has not absorbed
AbsorbThenAppend ==
    /\ w_state.absorbed = Payloads(SelectSeq(w_log, IsAbsorbed))
    /\ w_writer = AllBytes(SelectSeq(w_log, IsWritten))
    /\ \A i \in 1..Len(w_log) : IsWritten(w_log[i]) => IsAbsorbed(w_log[i])

AbsorbThenAppendWitness ==
    /\ Len(w_log) = 2
    /\ w_log[1].op = "write_point" /\ w_log[1].res = "ok"
    /\ w_log[2].op = "write_point" /\ w_log[2].res = "err"
    /\ is_identity(w_log[2].pt)
    /\ w_writer = to_bytes(w_log[1].pt)
    /\ w_state.absorbed = encode(Z, w_log[1].pt, C).val

----------------------------------------------------------------------------
(* C19 *)

\* how far into its source the reader is
Position == Len(r_input) - Len(r_reader)

\* the reads of log that found enough bytes
FullReads(log) ==
    {i \in 1..Len(log) : IsRead(log[i]) /\ log[i].res # "eof"}

\* C19: a read_point or read_scalar that finds a whole item's bytes moves
\* the position forward by exactly the item's width and takes exactly
\* those bytes off the source, whether or not they decode; when they do not
\* decode the sponge is as it was; and as long as no read came up short the
\* position is the sum of the widths of the items read
ReadFraming ==
    [][ (ReaderCalled /\ IsRead(Last(r_log'))) =>
           LET e == Last(r_log')
           IN /\ Len(r_reader) >= REPR_BYTES =>
                    /\ e.res # "eof"
                    /\ r_reader' = SubSeq(r_reader, REPR_BYTES + 1,
                                          Len(r_reader))
                    /\ Position' = Position + REPR_BYTES
              /\ e.res = "invalid" =>
                    /\ Len(r_reader) >= REPR_BYTES
                    /\ r_state' = r_state
              /\ (\A i \in 1..Len(r_log') :
                      IsRead(r_log'[i]) => r_log'[i].res # "eof")
                  => Position' = REPR_BYTES * Cardinality(FullReads(r_log'))
      ]_vars

ReadFramingWitness ==
    /\ Len(r_log) = 2
    /\ r_log[1].op = "read_point" /\ r_log[1].res = "invalid"
    /\ r_log[2].op = "read_scalar" /\ r_log[2].res = "ok"
    /\ Position = 2 * REPR_BYTES
    /\ r_reader = <<>>
    /\ r_state.absorbed = <<r_log[2].sc>>

====
